---- MODULE Spec2Model ----
(***************************************************************************)
(* Memory / delta / suggestion pipeline of the Business Model Canvas chat  *)
(* backend (bmc-api).  Conversation turns run update_user_memory and the   *)
(* proactive suggestion stage against one stored document per user token.  *)
(***************************************************************************)
EXTENDS Integers, Sequences, FiniteSets, TLC

(***************************************************************************)
(* Bounds                                                                  *)
(***************************************************************************)
\* number of distinct fact strings the oracle may mention (pipeline)
NumFacts == 1
\* longest list kept in one container of the stored memory (pipeline)
MaxLen == 2
\* number of conversation turns in flight
MaxTurns == 2
\* number of fact strings / longest canvas list / longest auxiliary list
\* in the inputs of the pure delta function
DeltaFacts == 2
DeltaMaxLen == 2
DeltaMaxAux == 2
\* number of canvas blocks the oracle's answers touch
NumOracleBlocks == 1

VARIABLES
  store,        \* user store: token -> stored BusinessUser document, or NoUser
  pc,           \* per turn: the await point the turn's handler is suspended at
  tok,          \* per turn: chat_message.user_token
  user,         \* per turn: the BusinessUser object loaded by the running stage
  response,     \* per turn: the oracle response the running update received
  result,       \* per turn: MemoryExtractionResult of the running update
  memory_delta, \* per turn: graph state key "memory_delta"
  suggestion,   \* per turn: ProactiveSuggestion returned by generate_suggestion
  outcome,      \* per turn: what each call of update_user_memory returned
  shown,        \* per turn: graph state key "proactive_suggestion"
  extractCalls, \* per turn: invocations of the fact-extraction oracle
  sugCalls,     \* per turn: invocations of the suggestion oracle
  writes,       \* per turn: outcome of each store write the turn issued
  dOld, dNew, dOut,  \* inputs and output of the pure delta function
  gDelta, gReply, gOut,  \* inputs and output of generate_suggestion on its own
  resetSeen,    \* per turn: the memory was reset while the turn held a loaded user
  jPlan, jOut,  \* what the judge model answers call by call, and evaluate_run's result
  mExpected, mActual, mJudge, mOut,  \* inputs and output of the metric functions
  files         \* graph state of one turn that carries uploaded files

vars == << store, pc, tok, user, response, result, memory_delta, suggestion, outcome,
           shown, extractCalls, sugCalls, writes, dOld, dNew, dOut,
           gDelta, gReply, gOut, resetSeen,
           jPlan, jOut, mExpected, mActual, mJudge, mOut, files >>

pipeVars == << store, pc, tok, user, response, result, memory_delta, suggestion, outcome,
               shown, extractCalls, sugCalls, writes >>
deltaVars == << dOld, dNew, dOut >>
suggestVars == << gDelta, gReply, gOut >>
adminVars == << resetSeen >>
judgeVars == << jPlan, jOut >>
metricVars == << mExpected, mActual, mJudge, mOut >>
fileVars == << files >>
\* everything a step of a conversation turn leaves alone
sideVars == << dOld, dNew, dOut, gDelta, gReply, gOut, resetSeen,
              jPlan, jOut, mExpected, mActual, mJudge, mOut, files >>

(***************************************************************************)
(* Data model: business_user.py                                            *)
(***************************************************************************)
\* the 9 keys of BusinessInsights.canvas_state's default, in dict order
CanvasBlocks ==
  << "customer_segments", "value_propositions", "channels",
     "customer_relationships", "revenue_streams", "key_resources",
     "key_activities", "key_partnerships", "cost_structure" >>

Range(s) == { s[i] : i \in 1..Len(s) }

CanvasBlockSet == Range(CanvasBlocks)

\* Python dicts are functions over their key set; {} is the empty function
EmptyDict == << >>

DictSet(d, k, v) == [ x \in (DOMAIN d) \cup {k} |-> IF x = k THEN v ELSE d[x] ]

\* dict.get(k, [])
DictGet(d, k) == IF k \in DOMAIN d THEN d[k] ELSE << >>

\* BusinessInsights(): default-empty construction
DefaultCanvasState == [ b \in CanvasBlockSet |-> << >> ]

BusinessInsights(cs, co, pr, pe) ==
  [ canvas_state |-> cs, constraints |-> co, preferences |-> pr,
    pending_topics |-> pe ]

DefaultInsights == BusinessInsights(DefaultCanvasState, << >>, << >>, << >>)

(***************************************************************************)
(* MemoryExtractionResult.compute_delta: memory_service.py                 *)
(***************************************************************************)
\* a comparison of the two lists position by position
canvas_diff_positional(keys, from, to) ==
  LET Moved(k) == { DictGet(to, k)[i] :
                      i \in { n \in 1..Len(DictGet(to, k)) :
                                n > Len(DictGet(from, k))
                                  \/ DictGet(from, k)[n] # DictGet(to, k)[n] } }
  IN [ b \in { k \in keys : Moved(k) # {} } |-> Moved(b) ]

\* the loop over old_canvas.keys(): one entry per block with a difference
CanvasDiff(keys, from, to) ==
  [ b \in { k \in keys :
              Range(DictGet(to, k)) \ Range(DictGet(from, k)) # {} }
      |-> Range(DictGet(to, b)) \ Range(DictGet(from, b)) ]

\* an entry written for every key, empty differences included
put_always(d, k, s) == DictSet(d, k, s)

\* "if new - old: delta[...][key] = list(new - old)"
PutIfNonEmpty(d, k, s) == IF s # {} THEN DictSet(d, k, s) ELSE d

compute_delta(old_insights, new_insights) ==
  LET old_canvas == old_insights.canvas_state
      new_canvas == new_insights.canvas_state
      keys == DOMAIN old_canvas
      added0 == CanvasDiff(keys, old_canvas, new_canvas)
      removed0 == CanvasDiff(keys, new_canvas, old_canvas)
      old_constraints == Range(old_insights.constraints)
      new_constraints == Range(new_insights.constraints)
      added1 == PutIfNonEmpty(added0, "constraints",
                              new_constraints \ old_constraints)
      removed1 == PutIfNonEmpty(removed0, "constraints",
                                old_constraints \ new_constraints)
      old_pending == Range(old_insights.pending_topics)
      new_pending == Range(new_insights.pending_topics)
      added2 == PutIfNonEmpty(added1, "pending_topics",
                              new_pending \ old_pending)
      removed2 == PutIfNonEmpty(removed1, "pending_topics",
                                old_pending \ new_pending)
  IN [ added |-> added2, removed |-> removed2, modified |-> EmptyDict ]

\* "has_changes = bool(delta.get('added') or delta.get('removed'))"
HasChanges(delta) == delta.added # EmptyDict \/ delta.removed # EmptyDict

(***************************************************************************)
(* The fact-extraction oracle and its answers                              *)
(***************************************************************************)
FactNames == << "fact_a", "fact_b", "fact_c", "fact_d", "fact_e" >>
FactsUpTo(n) == { FactNames[i] : i \in 1..n }
Facts == FactsUpTo(NumFacts)

OracleBlocks == { CanvasBlocks[i] : i \in 1..NumOracleBlocks }

\* JSON list elements: a string, or a nested object
JsonStr(s) == [ ty |-> "str", v |-> s ]
JsonNested == [ ty |-> "obj", v |-> "" ]
ToJsonList(l) == [ i \in 1..Len(l) |-> JsonStr(l[i]) ]

InsightFields == { "canvas_state", "constraints", "preferences", "pending_topics" }

\* a JSON object with the BusinessInsights layout; keys = the fields present
JsonObject(keys, cs, co, pr, pe) ==
  [ ty |-> "object", keys |-> keys, canvas_state |-> cs, constraints |-> co,
    preferences |-> pr, pending_topics |-> pe ]
JsonArray == [ ty |-> "array" ]

\* existing_insights.model_dump_json(): every field, every element a string
model_dump_json(ins) ==
  JsonObject(InsightFields,
             [ b \in DOMAIN ins.canvas_state |-> ToJsonList(ins.canvas_state[b]) ],
             ToJsonList(ins.constraints), ToJsonList(ins.preferences),
             ToJsonList(ins.pending_topics))

\* tokens of the response text
TokFenceJson == [ tk |-> "fence_json", val |-> JsonArray ]
TokFence == [ tk |-> "fence", val |-> JsonArray ]
TokProse == [ tk |-> "prose", val |-> JsonArray ]
TokJson(j) == [ tk |-> "json", val |-> j ]

Reverse(l) == [ i \in 1..Len(l) |-> l[Len(l) + 1 - i] ]
RemoveAt(l, i) == [ j \in 1..(Len(l) - 1) |-> IF j < i THEN l[j] ELSE l[j + 1] ]
DictDel(d, k) == [ x \in (DOMAIN d) \ {k} |-> d[x] ]

\* snapshots an answer may carry, given the memory shown in the prompt
CanvasAppends(ex) ==
  LET cs == ex.canvas_state IN
    { [ ex EXCEPT !.canvas_state = DictSet(cs, p[1], Append(DictGet(cs, p[1]), p[2])) ] :
        p \in { q \in OracleBlocks \X Facts : Len(DictGet(cs, q[1])) < MaxLen } }

CanvasEdits(ex) ==
  LET cs == ex.canvas_state IN
    CanvasAppends(ex)
    \cup { [ ex EXCEPT !.canvas_state = DictSet(cs, b, << >>) ] : b \in OracleBlocks }
    \cup { [ ex EXCEPT !.canvas_state = DictSet(cs, b, Reverse(DictGet(cs, b))) ] :
             b \in OracleBlocks }
    \cup { [ ex EXCEPT !.canvas_state = DictDel(cs, b) ] : b \in OracleBlocks }

AuxEdits(ex) ==
    { [ ex EXCEPT !.constraints = Append(@, f) ] :
        f \in { g \in Facts : Len(ex.constraints) < MaxLen } }
    \cup { [ ex EXCEPT !.preferences = Append(@, f) ] :
        f \in { g \in Facts : Len(ex.preferences) < MaxLen } }
    \cup { [ ex EXCEPT !.pending_topics = Append(@, f) ] :
        f \in { g \in Facts : Len(ex.pending_topics) < MaxLen } }
    \cup { [ ex EXCEPT !.pending_topics = RemoveAt(@, i) ] :
        i \in 1..Len(ex.pending_topics) }

SnapshotEdits(ex) == {ex} \cup CanvasEdits(ex) \cup AuxEdits(ex)

\* a schema-valid object, one with canvas_state left out, one with a nested
\* object inside a canvas category list, and a JSON array
JsonAnswers(ex) ==
  { model_dump_json(e) : e \in SnapshotEdits(ex) }
  \cup { [ model_dump_json(ex) EXCEPT !.keys = InsightFields \ {"canvas_state"} ] }
  \cup { [ model_dump_json(e) EXCEPT !.canvas_state =
             DictSet(@, b, Append(DictGet(@, b), JsonNested)) ] :
           e \in CanvasAppends(ex), b \in OracleBlocks }
  \cup { JsonArray }

\* response.content: not a str, or a text of tokens
ExtractionResponses(ex) ==
  { [ is_str |-> FALSE, text |-> << >> ] }
  \cup { [ is_str |-> TRUE, text |-> << TokProse >> ] }
  \cup { [ is_str |-> TRUE, text |-> << TokJson(j) >> ] : j \in JsonAnswers(ex) }
  \cup { [ is_str |-> TRUE, text |-> << TokFenceJson, TokJson(model_dump_json(e)), TokFence >> ] :
           e \in CanvasAppends(ex) }

(***************************************************************************)
(* MemoryService.extract_business_facts: memory_service.py                 *)
(***************************************************************************)
\* response_content.replace(<json fence>, "").replace(<fence>, "").strip()
CleanContent(text) == SelectSeq(text, LAMBDA t : t.tk \notin { "fence_json", "fence" })

\* json.loads succeeds on exactly one JSON value
JsonLoadsOk(text) == Len(text) = 1 /\ text[1].tk = "json"

IsStrList(l) == \A i \in 1..Len(l) : l[i].ty = "str"
FromJsonList(l) == [ i \in 1..Len(l) |-> l[i].v ]

\* a constructor that accepts any JSON object without checking its fields
validates_any_object(j) == j.ty = "object"

\* the BusinessInsights constructor: data is a mapping and every present field has
\* the declared shape (Dict[str, List[str]] / List[str])
ValidatesAsInsights(j) ==
  /\ j.ty = "object"
  /\ "canvas_state" \in j.keys =>
        \A b \in DOMAIN j.canvas_state : IsStrList(j.canvas_state[b])
  /\ "constraints" \in j.keys => IsStrList(j.constraints)
  /\ "preferences" \in j.keys => IsStrList(j.preferences)
  /\ "pending_topics" \in j.keys => IsStrList(j.pending_topics)

\* absent fields take the default_factory value
ParseInsights(j) ==
  BusinessInsights(
    IF "canvas_state" \in j.keys
      THEN [ b \in DOMAIN j.canvas_state |-> FromJsonList(j.canvas_state[b]) ]
      ELSE DefaultCanvasState,
    IF "constraints" \in j.keys THEN FromJsonList(j.constraints) ELSE << >>,
    IF "preferences" \in j.keys THEN FromJsonList(j.preferences) ELSE << >>,
    IF "pending_topics" \in j.keys THEN FromJsonList(j.pending_topics) ELSE << >>)

MemoryExtractionResult(ins, delta, changed) ==
  [ updated_insights |-> ins, delta |-> delta, has_changes |-> changed ]

no_change_result(existing_insights) ==
  MemoryExtractionResult(existing_insights, EmptyDict, FALSE)

\* the result for one oracle response; raised = ainvoke raised
extract_business_facts(existing_insights, raised, resp) ==
  IF raised \/ ~resp.is_str
    THEN no_change_result(existing_insights)
    ELSE LET cleaned == CleanContent(resp.text) IN
      IF ~JsonLoadsOk(cleaned) \/ ~ValidatesAsInsights(cleaned[1].val)
        THEN no_change_result(existing_insights)
        ELSE LET updated == ParseInsights(cleaned[1].val)
                 delta == compute_delta(existing_insights, updated)
             IN MemoryExtractionResult(updated, delta, HasChanges(delta))

(***************************************************************************)
(* ProactiveService: proactive_service.py                                  *)
(***************************************************************************)
\* Python None, for object-valued and for string-valued places
None == [ is_none |-> TRUE ]
NoneStr == "<None>"

\* confidence is kept in units of 1/10000
ShowThreshold == 6000
DefaultConfidence == 5000

\* _CANVAS_IMPLICATIONS
CanvasImplications ==
  [ b \in CanvasBlockSet |->
      CASE b = "customer_segments" -> { "channels", "customer_relationships", "value_propositions" }
        [] b = "value_propositions" -> { "customer_segments", "revenue_streams", "key_activities" }
        [] b = "channels" -> { "customer_relationships", "key_partnerships" }
        [] b = "customer_relationships" -> { "channels", "key_resources" }
        [] b = "revenue_streams" -> { "value_propositions", "cost_structure" }
        [] b = "key_resources" -> { "key_activities", "key_partnerships", "cost_structure" }
        [] b = "key_activities" -> { "key_resources", "key_partnerships", "cost_structure" }
        [] b = "key_partnerships" -> { "key_activities", "key_resources", "channels" }
        [] OTHER -> { "key_resources", "key_activities", "revenue_streams" } ]

ProactiveSuggestion(text, block, conf) ==
  [ suggestion |-> text, target_block |-> block, confidence |-> conf ]

NullSuggestion == ProactiveSuggestion(NoneStr, NoneStr, 0)

\* a threshold that excludes the boundary value
should_show_above(s) == s.suggestion # NoneStr /\ s.confidence > ShowThreshold

\* ProactiveSuggestion.should_show
should_show(s) == s.suggestion # NoneStr /\ s.confidence >= ShowThreshold

\* a gate that lets any non-empty "added" map through
potential_any_added(delta) ==
  IF delta = None \/ delta = EmptyDict THEN FALSE ELSE delta.added # EmptyDict

\* ProactiveService._has_cross_canvas_potential
has_cross_canvas_potential(delta) ==
  IF delta = None \/ delta = EmptyDict THEN FALSE
  ELSE IF delta.added = EmptyDict THEN FALSE
  ELSE \E block \in DOMAIN delta.added : block \in DOMAIN CanvasImplications

\* answers of the suggestion oracle
SuggestionTexts == { "Add 'Online Store' to Channels" }
OracleConfidences == { 0, 5999, 6000, 15000 }

ConfNum(n) == [ k |-> "number", n |-> n ]
ConfNull == [ k |-> "null", n |-> 0 ]
ConfWord == [ k |-> "word", n |-> 0 ]

SuggestionObject(keys, text, block, conf) ==
  [ ty |-> "object", keys |-> keys, suggestion |-> text, target_block |-> block,
    confidence |-> conf ]

SuggestionFields == { "suggestion", "target_block", "confidence" }

SuggestionJsonAnswers ==
  { SuggestionObject(SuggestionFields, x, IF x = NoneStr THEN NoneStr ELSE "channels", ConfNum(n)) :
      x \in SuggestionTexts \cup {NoneStr}, n \in OracleConfidences }
  \cup { SuggestionObject(SuggestionFields \ {"confidence"}, x, "channels", ConfNull) :
           x \in SuggestionTexts }
  \cup { SuggestionObject(SuggestionFields, x, "channels", c) :
           x \in SuggestionTexts, c \in { ConfNull, ConfWord } }
  \cup { SuggestionObject({"confidence"}, NoneStr, NoneStr, ConfNum(6000)) }
  \cup { JsonArray }

SuggestionResponses ==
  { << TokProse >> }
  \cup { << TokJson(j) >> : j \in SuggestionJsonAnswers }
  \cup { << TokFenceJson, TokJson(j), TokFence >> : j \in SuggestionJsonAnswers }
  \cup { << TokProse, TokFenceJson, TokJson(j), TokFence >> : j \in SuggestionJsonAnswers }

\* "if content.startswith(<fence>): content = content.replace(...)"
CleanSuggestionContent(text) ==
  IF Len(text) > 0 /\ text[1].tk \in { "fence_json", "fence" }
    THEN CleanContent(text) ELSE text

\* data.get(k): None when the key is absent
JsonGet(j, k, field) == IF k \in j.keys THEN field ELSE NoneStr

\* a conversion that takes every value for a number
float_accepts_anything(j) == TRUE

\* float(data.get("confidence", 0.5)) is defined on numbers only
FloatOk(j) == "confidence" \notin j.keys \/ j.confidence.k = "number"
FloatOf(j) == IF "confidence" \in j.keys THEN j.confidence.n ELSE DefaultConfidence

\* the try-block of generate_suggestion, for one oracle response
parse_suggestion(raised, text) ==
  IF raised THEN NullSuggestion
  ELSE LET content == CleanSuggestionContent(text) IN
    IF ~JsonLoadsOk(content) THEN NullSuggestion
    ELSE LET data == content[1].val IN
      IF data.ty # "object" \/ ~FloatOk(data) THEN NullSuggestion
      ELSE ProactiveSuggestion(JsonGet(data, "suggestion", data.suggestion),
                               JsonGet(data, "target_block", data.target_block),
                               FloatOf(data))

\* sys_topic = f"[SYS] {suggestion_result.suggestion}"
SysTopic(text) == "[SYS] " \o text

(***************************************************************************)
(* The user store (BusinessUserFactory)                                    *)
(***************************************************************************)
Tokens == { "u1", "u2" }
Turns == 1..MaxTurns

NoUser == None
BusinessUser(sector, ins) == [ is_none |-> FALSE, sector |-> sector, key_insights |-> ins ]

\* get_user_by_token: the stored document, or None
get_user_by_token(st, token) == st[token]

\* update_user: replaces the whole document of an existing user
update_user_success(st, token) == st[token] # NoUser
update_user(st, token, u) ==
  IF update_user_success(st, token) THEN [ st EXCEPT ![token] = u ] ELSE st

\* outcomes of one store call: it answers, or raises a database error
StoreOutcomes == { "ok", "raise" }

(***************************************************************************)
(* One conversation turn of POST /chat/business:                           *)
(*   graph: business_conversation_node -> memory_extraction_node           *)
(*          -> proactive_suggestion_node,                                  *)
(*   then the reply, then the background task update_user_memory.          *)
(* A turn is suspended at its await points; pc names the next one.         *)
(***************************************************************************)
PcLoad(ph) == IF ph = "graph" THEN "mem_load" ELSE "bg_load"
PcExtract(ph) == IF ph = "graph" THEN "mem_extract" ELSE "bg_extract"
PcPersist(ph) == IF ph = "graph" THEN "mem_persist" ELSE "bg_persist"

InitialUser == BusinessUser("retail", DefaultInsights)

PipeInitAt(st, tk, at) ==
  /\ store = st
  /\ tok = tk
  /\ pc = at
  /\ user = [ t \in Turns |-> None ]
  /\ response = [ t \in Turns |-> None ]
  /\ result = [ t \in Turns |-> None ]
  /\ memory_delta = [ t \in Turns |-> None ]
  /\ suggestion = [ t \in Turns |-> None ]
  /\ outcome = [ t \in Turns |-> [ graph |-> "not_run", bg |-> "not_run" ] ]
  /\ shown = [ t \in Turns |-> NoneStr ]
  /\ extractCalls = [ t \in Turns |-> 0 ]
  /\ sugCalls = [ t \in Turns |-> 0 ]
  /\ writes = [ t \in Turns |-> [ graph |-> "none", sug |-> "none", bg |-> "none" ] ]

PipeInit(st, tk) == PipeInitAt(st, tk, [ t \in Turns |-> "conv" ])

DeltaIdle ==
  /\ dOld = DefaultInsights
  /\ dNew = DefaultInsights
  /\ dOut = None

SuggestIdle ==
  /\ gDelta = None
  /\ gReply = None
  /\ gOut = None

AdminIdle == resetSeen = [ t \in Turns |-> FALSE ]

JudgeIdle ==
  /\ jPlan = << >>
  /\ jOut = None

MetricsIdle ==
  /\ mExpected = << >>
  /\ mActual = None
  /\ mJudge = None
  /\ mOut = None

FilesIdle == files = None

InitialStore == [ k \in Tokens |-> IF k = "u1" THEN InitialUser ELSE NoUser ]

Init ==
  /\ PipeInit(InitialStore, [ t \in Turns |-> "u1" ])
  /\ DeltaIdle
  /\ SuggestIdle
  /\ AdminIdle
  /\ JudgeIdle
  /\ MetricsIdle
  /\ FilesIdle

\* business_conversation_node: the reply text is produced
BusinessConversation(t) ==
  /\ pc[t] = "conv"
  /\ pc' = [ pc EXCEPT ![t] = "mem_load" ]
  /\ UNCHANGED << store, tok, user, response, result, memory_delta, suggestion, outcome,
                  shown, extractCalls, sugCalls, writes >>

\* a node that hands on the delta of every result it got
delta_passed_always(ret) == ret \in { "has_changes", "no_changes" }

\* memory_extraction_node: "if result and result.has_changes"
delta_passed_on(ret) == ret = "has_changes"

\* a fast path that lets every delta through
delta_never_falsy(d) == FALSE

\* proactive_suggestion_node's fast path: "if not memory_delta"
delta_is_falsy(d) == d = None \/ d = EmptyDict

\* an except clause that lets the exception through to the caller
except_reraises == "raised"

\* update_user_memory: "except Exception as e: ... return None"
update_except == "None"

\* update_user_memory returns ret to its caller: memory_extraction_node
\* (which hands the delta to proactive_suggestion_node, whose fast path
\* returns at once on a null delta) or the background task runner
UpdateReturn(t, ph, ret, delta) ==
  /\ outcome' = [ outcome EXCEPT ![t][ph] = ret ]
  /\ user' = [ user EXCEPT ![t] = None ]
  /\ response' = [ response EXCEPT ![t] = None ]
  /\ result' = [ result EXCEPT ![t] = None ]
  /\ IF ph = "bg"
       THEN /\ pc' = [ pc EXCEPT ![t] = "done" ]
            /\ UNCHANGED memory_delta
       ELSE LET d == IF delta_passed_on(ret) THEN delta ELSE None IN
            /\ memory_delta' = [ memory_delta EXCEPT ![t] = d ]
            /\ pc' = [ pc EXCEPT ![t] =
                         IF delta_is_falsy(d) THEN "reply" ELSE "sug_load" ]
  /\ UNCHANGED << tok, suggestion, shown, sugCalls >>

\* a pipeline that addresses one fixed document whatever the turn's token
user_token_shared(t) == "u1"

\* the user_token argument the turn's stages pass to the store
user_token(t) == tok[t]

\* a load that treats every token as resolving to a user
user_missing_never(u) == FALSE

\* "if not user: return None"
user_missing(u) == u = None

\* update_user_memory, step 1: load the user
UpdateLoadUser(t, ph) ==
  /\ pc[t] = PcLoad(ph)
  /\ \E o \in StoreOutcomes :
       LET u == get_user_by_token(store, user_token(t)) IN
         IF o = "raise"
           THEN UpdateReturn(t, ph, update_except, None)
         ELSE IF user_missing(u)
           THEN UpdateReturn(t, ph, "None", None)
           ELSE /\ user' = [ user EXCEPT ![t] = u ]
                /\ pc' = [ pc EXCEPT ![t] = PcExtract(ph) ]
                /\ UNCHANGED << tok, response, result, memory_delta, suggestion, outcome,
                                shown, sugCalls >>
  /\ UNCHANGED << store, extractCalls, writes >>

\* a call that is made a second time when the first one raised
oracle_attempts_retry(raised) == IF raised THEN 2 ELSE 1

\* "await self.llm.ainvoke(...)" stands once in the try-block, in no loop
oracle_attempts(raised) == 1

\* response.content of one ainvoke; raised = the call raised instead
OracleReply(raised, content) == [ raised |-> raised, content |-> content ]

\* update_user_memory, step 2: extract_business_facts (one oracle call)
ExtractFacts(t, ph) ==
  /\ pc[t] = PcExtract(ph)
  /\ \E raised \in BOOLEAN :
     \E resp \in IF raised THEN { [ is_str |-> FALSE, text |-> << >> ] }
                 ELSE ExtractionResponses(user[t].key_insights) :
       /\ response' = [ response EXCEPT ![t] = OracleReply(raised, resp) ]
       /\ result' = [ result EXCEPT ![t] =
            extract_business_facts(user[t].key_insights, raised, resp) ]
       /\ extractCalls' = [ extractCalls EXCEPT ![t] = @ + oracle_attempts(raised) ]
  /\ pc' = [ pc EXCEPT ![t] = PcPersist(ph) ]
  /\ UNCHANGED << store, tok, user, memory_delta, suggestion, outcome, shown,
                  sugCalls, writes >>

\* a write issued after every extraction
persist_always(r) == TRUE

\* "if result.has_changes:" guards the write
persist_needed(r) == r.has_changes

\* update_user_memory, step 3: only if changed, user.key_insights =
\* result.updated_insights and update_user(user_token, user), whose return
\* value is not read; then "return result"
UpdateDB(t, ph) ==
  /\ pc[t] = PcPersist(ph)
  /\ LET ret == IF result[t].has_changes THEN "has_changes" ELSE "no_changes" IN
     IF persist_needed(result[t])
       THEN \E o \in StoreOutcomes :
         LET u == [ user[t] EXCEPT !.key_insights = result[t].updated_insights ] IN
           IF o = "raise"
             THEN /\ UNCHANGED store
                  /\ writes' = [ writes EXCEPT ![t][ph] = "raised" ]
                  /\ UpdateReturn(t, ph, update_except, None)
             ELSE /\ store' = update_user(store, user_token(t), u)
                  /\ writes' = [ writes EXCEPT ![t][ph] =
                       IF update_user_success(store, user_token(t)) THEN "ok" ELSE "failed" ]
                  /\ UpdateReturn(t, ph, ret, result[t].delta)
       ELSE /\ UNCHANGED << store, writes >>
            /\ UpdateReturn(t, ph, ret, result[t].delta)
  /\ UNCHANGED extractCalls

\* a membership test that never finds the topic
already_pending_never(sys_topic, pending) == FALSE

\* "if sys_topic not in user.key_insights.pending_topics"
already_pending(sys_topic, pending) == sys_topic \in Range(pending)

\* proactive_suggestion_node returns to the graph
SuggestionReturn(t, text) ==
  /\ shown' = [ shown EXCEPT ![t] = text ]
  /\ user' = [ user EXCEPT ![t] = None ]
  /\ pc' = [ pc EXCEPT ![t] = "reply" ]
  /\ UNCHANGED << tok, response, result, memory_delta, outcome, extractCalls >>

\* proactive_suggestion_node: load the user; generate_suggestion's fast
\* path returns the null suggestion without an oracle call
SuggestionLoadUser(t) ==
  /\ pc[t] = "sug_load"
  /\ \E o \in StoreOutcomes :
       LET u == get_user_by_token(store, user_token(t)) IN
         IF o = "raise" \/ u = None
           THEN SuggestionReturn(t, NoneStr) /\ UNCHANGED suggestion
           ELSE IF ~has_cross_canvas_potential(memory_delta[t])
             THEN /\ SuggestionReturn(t, NoneStr)
                  /\ suggestion' = [ suggestion EXCEPT ![t] = NullSuggestion ]
             ELSE /\ user' = [ user EXCEPT ![t] = u ]
                  /\ pc' = [ pc EXCEPT ![t] = "sug_oracle" ]
                  /\ UNCHANGED << tok, response, result, memory_delta, suggestion,
                                  outcome, shown, extractCalls >>
  /\ UNCHANGED << store, sugCalls, writes >>

\* generate_suggestion's oracle call, then the should_show branch of the node
GenerateSuggestion(t) ==
  /\ pc[t] = "sug_oracle"
  /\ \E raised \in BOOLEAN :
     \E text \in IF raised THEN { << >> } ELSE SuggestionResponses :
       LET s == parse_suggestion(raised, text)
           pending == user[t].key_insights.pending_topics
       IN /\ suggestion' = [ suggestion EXCEPT ![t] = s ]
          /\ IF should_show(s)
               THEN IF ~already_pending(SysTopic(s.suggestion), pending)
                 THEN /\ user' = [ user EXCEPT ![t].key_insights.pending_topics =
                                     Append(pending, SysTopic(s.suggestion)) ]
                      /\ pc' = [ pc EXCEPT ![t] = "sug_persist" ]
                      /\ UNCHANGED << tok, response, result, memory_delta, outcome,
                                      shown, extractCalls >>
                 ELSE SuggestionReturn(t, s.suggestion)
               ELSE SuggestionReturn(t, NoneStr)
       /\ sugCalls' = [ sugCalls EXCEPT ![t] = @ + oracle_attempts(raised) ]
  /\ UNCHANGED << store, writes >>

\* proactive_suggestion_node: update_user(user_token, user) with the topic
SuggestionUpdateUser(t) ==
  /\ pc[t] = "sug_persist"
  /\ \E o \in StoreOutcomes :
       IF o = "raise"
         THEN /\ UNCHANGED store
              /\ writes' = [ writes EXCEPT ![t].sug = "raised" ]
              /\ SuggestionReturn(t, NoneStr)
         ELSE /\ store' = update_user(store, user_token(t), user[t])
              /\ writes' = [ writes EXCEPT ![t].sug =
                   IF update_user_success(store, user_token(t)) THEN "ok" ELSE "failed" ]
              /\ SuggestionReturn(t, suggestion[t].suggestion)
  /\ UNCHANGED << suggestion, sugCalls >>

\* business_chat returns {"response": ...} and the background task starts
DeliverReply(t) ==
  /\ pc[t] = "reply"
  /\ pc' = [ pc EXCEPT ![t] = "bg_load" ]
  /\ memory_delta' = [ memory_delta EXCEPT ![t] = None ]
  /\ suggestion' = [ suggestion EXCEPT ![t] = None ]
  /\ UNCHANGED << store, tok, user, response, result, outcome, shown, extractCalls,
                  sugCalls, writes >>

\* DELETE /business/user/{token}
DeleteUser(k) ==
  /\ store[k] # NoUser
  /\ store' = [ store EXCEPT ![k] = NoUser ]
  /\ UNCHANGED << pc, tok, user, response, result, memory_delta, suggestion, outcome,
                  shown, extractCalls, sugCalls, writes >>

GraphLoadUser(t) == UpdateLoadUser(t, "graph")
GraphExtractFacts(t) == ExtractFacts(t, "graph")
GraphUpdateDB(t) == UpdateDB(t, "graph")
BackgroundLoadUser(t) == UpdateLoadUser(t, "bg")
BackgroundExtractFacts(t) == ExtractFacts(t, "bg")
BackgroundUpdateDB(t) == UpdateDB(t, "bg")

Next ==
  \/ \E t \in Turns : BusinessConversation(t) /\ UNCHANGED sideVars
  \/ \E t \in Turns : GraphLoadUser(t) /\ UNCHANGED sideVars
  \/ \E t \in Turns : GraphExtractFacts(t) /\ UNCHANGED sideVars
  \/ \E t \in Turns : GraphUpdateDB(t) /\ UNCHANGED sideVars
  \/ \E t \in Turns : SuggestionLoadUser(t) /\ UNCHANGED sideVars
  \/ \E t \in Turns : GenerateSuggestion(t) /\ UNCHANGED sideVars
  \/ \E t \in Turns : SuggestionUpdateUser(t) /\ UNCHANGED sideVars
  \/ \E t \in Turns : DeliverReply(t) /\ UNCHANGED sideVars
  \/ \E t \in Turns : BackgroundLoadUser(t) /\ UNCHANGED sideVars
  \/ \E t \in Turns : BackgroundExtractFacts(t) /\ UNCHANGED sideVars
  \/ \E t \in Turns : BackgroundUpdateDB(t) /\ UNCHANGED sideVars
  \/ \E k \in Tokens : DeleteUser(k) /\ UNCHANGED sideVars

Spec == Init /\ [][Next]_vars

(***************************************************************************)
(* The delta function on its own, over bounded snapshots                   *)
(***************************************************************************)
SeqsUpTo(S, n) == UNION { [ 1..k -> S ] : k \in 0..n }

DeltaCanvases ==
  { [ b \in present |-> IF b \in OracleBlocks THEN f[b] ELSE << >> ] :
      present \in { CanvasBlockSet \ x : x \in SUBSET OracleBlocks },
      f \in [ OracleBlocks -> SeqsUpTo(FactsUpTo(DeltaFacts), DeltaMaxLen) ] }

DeltaInsights ==
  { BusinessInsights(cs, co, << >>, pe) :
      cs \in DeltaCanvases,
      co \in SeqsUpTo(FactsUpTo(DeltaFacts), DeltaMaxAux),
      pe \in SeqsUpTo(FactsUpTo(DeltaFacts), DeltaMaxAux) }

DeltaInit ==
  /\ PipeInit([ k \in Tokens |-> NoUser ], [ t \in Turns |-> "u1" ])
  /\ dOld \in DeltaInsights
  /\ dNew \in DeltaInsights
  /\ dOut = None
  /\ SuggestIdle
  /\ AdminIdle
  /\ JudgeIdle
  /\ MetricsIdle
  /\ FilesIdle

ApplyDelta ==
  /\ dOut = None
  /\ dOut' = compute_delta(dOld, dNew)
  /\ UNCHANGED << dOld, dNew >>
  /\ UNCHANGED << pipeVars, suggestVars, adminVars, judgeVars, metricVars, fileVars >>

SpecDelta == DeltaInit /\ [][ApplyDelta]_vars

(***************************************************************************)
(* generate_suggestion on its own, over bounded deltas and oracle replies  *)
(***************************************************************************)
\* ProactiveService.generate_suggestion: the fast path, then the try-block
generate_suggestion(delta, raised, text) ==
  IF ~has_cross_canvas_potential(delta)
    THEN NullSuggestion
    ELSE parse_suggestion(raised, text)

\* deltas a turn can hand to the suggestion stage
SuggestDeltas ==
  { None } \cup { compute_delta(DefaultInsights, e) : e \in SnapshotEdits(DefaultInsights) }

SuggestionReplies ==
  { OracleReply(TRUE, << >>) }
  \cup { OracleReply(FALSE, x) : x \in SuggestionResponses }

SuggestInit ==
  /\ PipeInit([ k \in Tokens |-> NoUser ], [ t \in Turns |-> "u1" ])
  /\ DeltaIdle
  /\ AdminIdle
  /\ JudgeIdle
  /\ MetricsIdle
  /\ FilesIdle
  /\ gDelta \in SuggestDeltas
  /\ gReply \in SuggestionReplies
  /\ gOut = None

ApplySuggestion ==
  /\ gOut = None
  /\ gOut' = generate_suggestion(gDelta, gReply.raised, gReply.content)
  /\ UNCHANGED << gDelta, gReply >>
  /\ UNCHANGED << pipeVars, deltaVars, adminVars, judgeVars, metricVars, fileVars >>

SpecSuggest == SuggestInit /\ [][ApplySuggestion]_vars

(***************************************************************************)
(* One conversation turn next to the administrative endpoints              *)
(*   PUT /business/user/{token} and DELETE /business/user/{token}/memory   *)
(***************************************************************************)
Sectors == { "retail", "services" }

\* PUT /business/user/{token}: the stored document is replaced by the body,
\* here the stored document with an edited sector
UpdateProfile(k) ==
  /\ store[k] # NoUser
  /\ \E sec \in Sectors \ { store[k].sector } :
       store' = update_user(store, k, [ store[k] EXCEPT !.sector = sec ])
  /\ UNCHANGED << pc, tok, user, response, result, memory_delta, suggestion, outcome,
                  shown, extractCalls, sugCalls, writes >>
  /\ UNCHANGED resetSeen

\* reset_user_memory: key_insights of an existing user becomes the default
reset_user_memory(st, token) ==
  IF st[token] # NoUser
    THEN [ st EXCEPT ![token].key_insights = DefaultInsights ]
    ELSE st

\* turn t holds a loaded copy of token k's user that carries stored facts
HoldsFacts(t, k) ==
  tok[t] = k /\ user[t] # None /\ user[t].key_insights # DefaultInsights

\* DELETE /business/user/{token}/memory, answered with success
ResetMemory(k) ==
  /\ store[k] # NoUser
  /\ store[k].key_insights # DefaultInsights
  /\ store' = reset_user_memory(store, k)
  /\ resetSeen' = [ t \in Turns |-> resetSeen[t] \/ HoldsFacts(t, k) ]
  /\ UNCHANGED << pc, tok, user, response, result, memory_delta, suggestion, outcome,
                  shown, extractCalls, sugCalls, writes >>

\* one turn is in flight, the others have finished
AdminInit ==
  /\ PipeInitAt(InitialStore, [ t \in Turns |-> "u1" ],
                [ t \in Turns |-> IF t = 1 THEN "conv" ELSE "done" ])
  /\ DeltaIdle
  /\ SuggestIdle
  /\ AdminIdle
  /\ JudgeIdle
  /\ MetricsIdle
  /\ FilesIdle

AdminNext ==
  \/ Next
  \/ \E k \in Tokens : UpdateProfile(k) /\ UNCHANGED << deltaVars, suggestVars, judgeVars, metricVars, fileVars >>
  \/ \E k \in Tokens : ResetMemory(k) /\ UNCHANGED << deltaVars, suggestVars, judgeVars, metricVars, fileVars >>

SpecAdmin == AdminInit /\ [][AdminNext]_vars

(***************************************************************************)
(* Progress of one turn.  The event loop resumes a handler whose awaited   *)
(* store call or reply has completed; the oracle awaits carry no timeout,  *)
(* so nothing obliges an ainvoke call to complete.                         *)
(***************************************************************************)
TurnProgress(t) ==
  /\ WF_vars(BusinessConversation(t) /\ UNCHANGED sideVars)
  /\ WF_vars(GraphLoadUser(t) /\ UNCHANGED sideVars)
  /\ WF_vars(GraphUpdateDB(t) /\ UNCHANGED sideVars)
  /\ WF_vars(SuggestionLoadUser(t) /\ UNCHANGED sideVars)
  /\ WF_vars(SuggestionUpdateUser(t) /\ UNCHANGED sideVars)
  /\ WF_vars(DeliverReply(t) /\ UNCHANGED sideVars)
  /\ WF_vars(BackgroundLoadUser(t) /\ UNCHANGED sideVars)
  /\ WF_vars(BackgroundUpdateDB(t) /\ UNCHANGED sideVars)

SpecLive == AdminInit /\ [][Next]_vars /\ \A t \in Turns : TurnProgress(t)

(***************************************************************************)
(* Turns of different users side by side                                   *)
(***************************************************************************)
\* every token has a user; turn 1 belongs to u1, the other turns to u2
TokensInit ==
  /\ PipeInit([ k \in Tokens |-> InitialUser ],
              [ t \in Turns |-> IF t = 1 THEN "u1" ELSE "u2" ])
  /\ DeltaIdle
  /\ SuggestIdle
  /\ AdminIdle
  /\ JudgeIdle
  /\ MetricsIdle
  /\ FilesIdle

SpecTokens == TokensInit /\ [][Next]_vars

(***************************************************************************)
(* The offline judge: step 5 of ContentAccuracyEvaluator.evaluate_run      *)
(***************************************************************************)
\* answers of the judge model that one run is prepared to receive
JudgePlanLen == 4

\* Python's "sub in s" on strings, the strings given character by character
Contains(s, sub) ==
  \E i \in 0..(Len(s) - Len(sub)) : SubSeq(s, i + 1, i + Len(sub)) = sub

\* str(api_error) of the errors generate_content raises
ApiErrors ==
  { << "4", "2", "9" >>, << "e", "4", "2", "9" >>, << "5", "0", "3" >> }

\* response.text: a JSON object with or without "score", a JSON array, no JSON
JudgeTexts ==
  { [ json |-> "object", score |-> sc ] : sc \in { "1", "0", "null", "absent" } }
  \cup { [ json |-> "array", score |-> "absent" ],
         [ json |-> "invalid", score |-> "absent" ] }

JudgeAnswers ==
  { [ raised |-> TRUE, error |-> e, text |-> None ] : e \in ApiErrors }
  \cup { [ raised |-> FALSE, error |-> << >>, text |-> x ] : x \in JudgeTexts }

\* for attempt in range(3)
judge_attempts == 3

\* a loop that sleeps and goes on after every error while attempts remain
retry_any_error(error, attempt) == attempt < 2

\* if "429" in str(api_error) and attempt < 2
retry_allowed(error, attempt) ==
  Contains(error, << "4", "2", "9" >>) /\ attempt < 2

\* the retry loop: the answers consumed, the sleeps taken, and how it ended
RECURSIVE generate_judgment(_, _, _)
generate_judgment(plan, attempt, slept) ==
  IF attempt >= judge_attempts
    THEN [ calls |-> attempt, sleeps |-> slept, raised |-> TRUE, text |-> None ]
    ELSE LET answer == plan[attempt + 1] IN
         IF ~answer.raised
           THEN [ calls |-> attempt + 1, sleeps |-> slept, raised |-> FALSE,
                  text |-> answer.text ]
           ELSE IF retry_allowed(answer.error, attempt)
                  THEN generate_judgment(plan, attempt + 1, slept + 1)
                  ELSE [ calls |-> attempt + 1, sleeps |-> slept, raised |-> TRUE,
                         text |-> None ]

\* json.loads(response.text) and result_json.get("score")
parse_judgment(text) ==
  IF text.json # "object"
    THEN [ raised |-> TRUE, score |-> None ]
    ELSE [ raised |-> FALSE,
           score |-> IF text.score \in { "null", "absent" } THEN None ELSE text.score ]

\* evaluate_run from the judgment on: the outer try and its except clause
evaluate_run(plan) ==
  LET g == generate_judgment(plan, 0, 0)
      parsed == IF g.raised THEN [ raised |-> TRUE, score |-> None ]
                            ELSE parse_judgment(g.text)
  IN  IF parsed.raised
        THEN [ key |-> "accuracy_error", score |-> None,
               calls |-> g.calls, sleeps |-> g.sleeps ]
        ELSE [ key |-> "accuracy_score", score |-> parsed.score,
               calls |-> g.calls, sleeps |-> g.sleeps ]

JudgeInit ==
  /\ PipeInit([ k \in Tokens |-> NoUser ], [ t \in Turns |-> "u1" ])
  /\ DeltaIdle
  /\ SuggestIdle
  /\ AdminIdle
  /\ MetricsIdle
  /\ FilesIdle
  /\ jPlan \in [ 1..JudgePlanLen -> JudgeAnswers ]
  /\ jOut = None

EvaluateRun ==
  /\ jOut = None
  /\ jOut' = evaluate_run(jPlan)
  /\ UNCHANGED jPlan
  /\ UNCHANGED << pipeVars, deltaVars, suggestVars, adminVars, metricVars, fileVars >>

SpecJudge == JudgeInit /\ [][EvaluateRun]_vars

(***************************************************************************)
(* The scores of the evaluation harness: compute_fact_overlap and          *)
(* MemoryAccuracyEvaluator._compute_metrics                                *)
(***************************************************************************)
\* characters of a fact's content, facts of a list, entries of "constraints"
MetricLen == 2
MetricFacts == 2
MetricAux == 1

Letters == { "a", "A", "b" }

\* str.lower, character by character (the alphabet holds no whitespace, so
\* str.strip leaves these strings as they are)
lower(str) == [ i \in 1..Len(str) |-> IF str[i] = "A" THEN "a" ELSE str[i] ]

FactContents == UNION { [ 1..k -> Letters ] : k \in 1..MetricLen }

\* the string "block: item"
Fact(block, item) == [ block |-> block, item |-> item ]

\* expected_facts, and the actual_output dict of the extractor
ExpectedFacts ==
  SeqsUpTo({ Fact("customer_segments", c) : c \in FactContents }, MetricFacts)

ActualOutputs ==
  [ canvas_state : SeqsUpTo(FactContents, MetricFacts),
    constraints : SeqsUpTo(FactContents, MetricAux) ]

\* the flattening loops: canvas items first, then the constraints
flatten(actual_output) ==
  [ i \in 1..Len(actual_output.canvas_state) |->
      Fact("customer_segments", actual_output.canvas_state[i]) ]
  \o [ i \in 1..Len(actual_output.constraints) |->
         Fact("constraint", actual_output.constraints[i]) ]

\* f.lower().strip() followed by split(":", 1)[-1].strip()
content(fact) == lower(fact.item)

\* expected_content in actual_content or actual_content in expected_content
matches(expected, actual) ==
  Contains(content(actual), content(expected))
  \/ Contains(content(expected), content(actual))

\* the tp loop: one count per expected fact that some actual fact matches
overlap_tp(expected_facts, actual_facts) ==
  Cardinality({ i \in 1..Len(expected_facts) :
                  \E j \in 1..Len(actual_facts) :
                    matches(expected_facts[i], actual_facts[j]) })

\* a float as the quotient of two integers
Ratio(n, d) == [ num |-> n, den |-> d ]

\* precision, recall and f1 as both functions compute them from tp, fp, fn
scores(tp, fp, fn) ==
  LET precision == IF tp + fp > 0 THEN Ratio(tp, tp + fp) ELSE Ratio(1, 1)
      recall == IF tp + fn > 0 THEN Ratio(tp, tp + fn) ELSE Ratio(1, 1)
      sum == precision.num * recall.den + recall.num * precision.den
      f1 == IF sum > 0 THEN Ratio(2 * precision.num * recall.num, sum)
                       ELSE Ratio(0, 1)
  IN  [ precision |-> precision, recall |-> recall, f1 |-> f1,
        tp |-> tp, fp |-> fp, fn |-> fn ]

compute_fact_overlap(expected_facts, actual_output) ==
  LET actual_facts == flatten(actual_output)
      tp == overlap_tp(expected_facts, actual_facts)
  IN  scores(tp, Len(actual_facts) - tp, Len(expected_facts) - tp)

\* the fact lists of the judge's JSON answer
JudgeResponses ==
  [ extracted_facts : SeqsUpTo({ "fact1", "fact2" }, MetricFacts),
    missed_facts : SeqsUpTo({ "fact1", "fact2" }, MetricFacts),
    hallucinated_facts : SeqsUpTo({ "fact1", "fact2" }, MetricFacts) ]

\* tp = max(0, tp)
tp_clamped(n) == IF n < 0 THEN 0 ELSE n

_compute_metrics(judge_response) ==
  scores(tp_clamped(Len(judge_response.extracted_facts)
                      - Len(judge_response.hallucinated_facts)),
         Len(judge_response.hallucinated_facts),
         Len(judge_response.missed_facts))

MetricsInit ==
  /\ PipeInit([ k \in Tokens |-> NoUser ], [ t \in Turns |-> "u1" ])
  /\ DeltaIdle
  /\ SuggestIdle
  /\ AdminIdle
  /\ JudgeIdle
  /\ FilesIdle
  /\ \/ /\ mExpected \in ExpectedFacts
        /\ mActual \in ActualOutputs
        /\ mJudge = None
     \/ /\ mExpected = << >>
        /\ mActual = None
        /\ mJudge \in JudgeResponses
  /\ mOut = None

ComputeFactOverlap ==
  /\ mActual # None
  /\ mOut = None
  /\ mOut' = compute_fact_overlap(mExpected, mActual)
  /\ UNCHANGED << mExpected, mActual, mJudge >>
  /\ UNCHANGED << pipeVars, deltaVars, suggestVars, adminVars, judgeVars, fileVars >>

ComputeMetrics ==
  /\ mJudge # None
  /\ mOut = None
  /\ mOut' = _compute_metrics(mJudge)
  /\ UNCHANGED << mExpected, mActual, mJudge >>
  /\ UNCHANGED << pipeVars, deltaVars, suggestVars, adminVars, judgeVars, fileVars >>

SpecMetrics == MetricsInit /\ [][ComputeFactOverlap \/ ComputeMetrics]_vars

(***************************************************************************)
(* A turn that carries uploaded files: file_processing_node, then          *)
(* business_conversation_node (graph.py routes both branches of            *)
(* has_files_to_process to the conversation node)                          *)
(***************************************************************************)
\* state["pdf_base64"], state["image_base64"]: absent, empty, the Swagger
\* placeholder, and base64 text of 4, 3 and 5 characters
Base64Str(text) == [ is_none |-> FALSE, text |-> text ]

FileInputs ==
  { None } \cup
  { Base64Str(x) : x \in { << >>, << "s", "t", "r", "i", "n", "g" >>,
                           << "Q", "U", "J", "D" >>, << "Q", "U", "I" >>,
                           << "Q", "U", "J", "D", "R" >> } }

\* what validate_business_context hands back: the result and whether a
\* business context came with it
ValidationResults == { "VALID", "INVALID" }

_sanitize_base64(b64_string) ==
  IF b64_string \in { None, Base64Str(<< >>),
                      Base64Str(<< "s", "t", "r", "i", "n", "g" >>) }
    THEN None
    ELSE Base64Str(b64_string.text
                   \o [ i \in 1..((4 - (Len(b64_string.text) % 4)) % 4) |-> "=" ])

\* base64.b64decode succeeds unless the data characters number 1 modulo 4
b64decode_ok(b64_string) ==
  Cardinality({ i \in 1..Len(b64_string.text) : b64_string.text[i] # "=" }) % 4 # 1

\* "if pdf_base64:" and the try-block around the decode and the append
attached(b64_string) ==
  _sanitize_base64(b64_string) # None /\ b64decode_ok(_sanitize_base64(b64_string))

FilesInit ==
  /\ PipeInit([ k \in Tokens |-> NoUser ], [ t \in Turns |-> "u1" ])
  /\ DeltaIdle
  /\ SuggestIdle
  /\ AdminIdle
  /\ JudgeIdle
  /\ MetricsIdle
  /\ \E p \in FileInputs, i \in FileInputs :
       files = [ pc |-> "file_processing", pdf_base64 |-> p, image_base64 |-> i,
                 validation |-> "none", file_processing_error |-> FALSE,
                 audit |-> { }, pdf_attached |-> FALSE, image_attached |-> FALSE ]

\* file_processing_node: the returned dict never touches pdf_base64 or
\* image_base64
FileProcessing ==
  /\ files # None
  /\ files.pc = "file_processing"
  /\ LET pdf == _sanitize_base64(files.pdf_base64)
         image == _sanitize_base64(files.image_base64)
     IN  IF pdf = None /\ image = None
           THEN files' = [ files EXCEPT !.pc = "business_conversation" ]
           ELSE \E validation_result \in ValidationResults, business_context \in BOOLEAN :
                  files' = [ files EXCEPT
                    !.pc = "business_conversation",
                    !.validation = validation_result,
                    !.file_processing_error = (validation_result # "VALID"),
                    !.audit = IF business_context
                                THEN { [ file_type |-> ft,
                                         success |-> (validation_result = "VALID") ] :
                                       ft \in (IF pdf # None THEN { "pdf" } ELSE { })
                                              \cup (IF image # None THEN { "image" } ELSE { }) }
                                ELSE { } ]
  /\ UNCHANGED << pipeVars, deltaVars, suggestVars, adminVars, judgeVars, metricVars >>

\* business_conversation_node, step 3: _convert_to_native_content builds the
\* parts of the model request from the state's base64 fields
ConvertToNativeContent ==
  /\ files # None
  /\ files.pc = "business_conversation"
  /\ files' = [ files EXCEPT !.pc = "done",
                             !.pdf_attached = attached(files.pdf_base64),
                             !.image_attached = attached(files.image_base64) ]
  /\ UNCHANGED << pipeVars, deltaVars, suggestVars, adminVars, judgeVars, metricVars >>

SpecFiles == FilesInit /\ [][FileProcessing \/ ConvertToNativeContent]_vars

(***************************************************************************)
(* Properties                                                              *)
(***************************************************************************)
Phases == { "graph", "bg" }

\* turn t takes the step that leaves the await point p
Leaves(t, p) == pc[t] = p /\ pc'[t] # p

\* between loading the user and returning from update_user_memory
InUpdate(t) == pc[t] \in { "mem_extract", "mem_persist", "bg_extract", "bg_persist" }

\* C1: memory updates for one user token are serialized: no two executions
\* of update_user_memory for the same token are both between loading the
\* user and persisting the new snapshot.
C1_UpdatesSerialized ==
  \A t1 \in Turns : \A t2 \in Turns :
    (t1 # t2 /\ tok[t1] = tok[t2]) => ~(InUpdate(t1) /\ InUpdate(t2))

\* C2: whenever proactive_suggestion_node persists a user, the document it
\* writes equals the document stored at that moment except for the one
\* appended pending topic.
C2_SuggestionWriteOnlyAppends ==
  [][ \A t \in Turns :
        (Leaves(t, "sug_persist") /\ store' # store) =>
          store'[tok[t]] =
            [ store[tok[t]] EXCEPT !.key_insights.pending_topics =
                Append(@, SysTopic(suggestion[t].suggestion)) ] ]_vars

\* the set difference the delta is meant to hold for key k
SetDiff(to, from) == Range(to) \ Range(from)
EntryIs(map, k, diff) ==
  /\ (k \in DOMAIN map) <=> (diff # {})
  /\ (k \in DOMAIN map) => map[k] = diff

\* C3: for every canvas category, added[category] = set(new) - set(old) and
\* removed[category] = set(old) - set(new), a category being absent from a
\* map exactly when the difference is empty; the same for constraints and
\* pending_topics under the keys "constraints" and "pending_topics".
C3_DeltaIsSetDifference ==
  dOut # None =>
    /\ \A c \in CanvasBlockSet :
         /\ EntryIs(dOut.added, c,
                    SetDiff(DictGet(dNew.canvas_state, c), DictGet(dOld.canvas_state, c)))
         /\ EntryIs(dOut.removed, c,
                    SetDiff(DictGet(dOld.canvas_state, c), DictGet(dNew.canvas_state, c)))
    /\ EntryIs(dOut.added, "constraints", SetDiff(dNew.constraints, dOld.constraints))
    /\ EntryIs(dOut.removed, "constraints", SetDiff(dOld.constraints, dNew.constraints))
    /\ EntryIs(dOut.added, "pending_topics", SetDiff(dNew.pending_topics, dOld.pending_topics))
    /\ EntryIs(dOut.removed, "pending_topics", SetDiff(dOld.pending_topics, dNew.pending_topics))

\* two snapshots hold different entries in one of the four containers
EntriesDiffer(a, b) ==
  \/ \E k \in (DOMAIN a.canvas_state) \cup (DOMAIN b.canvas_state) :
       Range(DictGet(a.canvas_state, k)) # Range(DictGet(b.canvas_state, k))
  \/ Range(a.constraints) # Range(b.constraints)
  \/ Range(a.preferences) # Range(b.preferences)
  \/ Range(a.pending_topics) # Range(b.pending_topics)

\* C4: update_user_memory persists the extractor's snapshot whenever it is
\* schema-valid and differs from the stored BusinessInsights in the entries
\* of any of its four containers.
C4_PersistsWheneverDiffers ==
  \A t \in Turns :
    (pc[t] \in { "mem_persist", "bg_persist" }
       /\ EntriesDiffer(user[t].key_insights, result[t].updated_insights))
      => persist_needed(result[t])

\* added and removed are both empty (the no-change result carries {})
DeltaEmpty(d) ==
  IF d = EmptyDict THEN TRUE ELSE d.added = EmptyDict /\ d.removed = EmptyDict

\* C5: when the computed delta has no changes, update_user_memory returns
\* the no-changes outcome and issues no write: the store is left unchanged.
C5_NoChangesNoWrite ==
  [][ \A t \in Turns : \A ph \in Phases :
        (Leaves(t, PcPersist(ph)) /\ DeltaEmpty(result[t].delta)) =>
          /\ store' = store
          /\ writes'[t][ph] = "none"
          /\ outcome'[t][ph] = "no_changes" ]_vars

C5_Witness ==
  \E t \in Turns :
    /\ pc[t] = "reply"
    /\ outcome[t].graph = "no_changes"
    /\ extractCalls[t] = 1
    /\ store[tok[t]] # NoUser
    /\ store[tok[t]].key_insights # DefaultInsights

\* the answer is text that is not JSON
NotJson(r) ==
  ~r.raised /\ r.content.is_str
    /\ \E i \in 1..Len(r.content.text) : r.content.text[i].tk = "prose"

\* the answer is a JSON object with a nested object inside a canvas list
NestedInCanvas(r) ==
  ~r.raised /\ r.content.is_str
    /\ \E i \in 1..Len(r.content.text) :
         LET tkn == r.content.text[i] IN
           /\ tkn.tk = "json"
           /\ tkn.val.ty = "object"
           /\ \E b \in DOMAIN tkn.val.canvas_state :
                \E j \in 1..Len(tkn.val.canvas_state[b]) :
                  tkn.val.canvas_state[b][j].ty = "obj"

\* C6: if the oracle's output is not valid JSON or does not validate against
\* the schema (a nested object inside a canvas category list),
\* extract_business_facts returns the unchanged input snapshot with
\* has_changes false, and update_user_memory writes nothing.
C6_MalformedIsNoOp ==
  [][ \A t \in Turns : \A ph \in Phases :
        (Leaves(t, PcPersist(ph))
           /\ (NotJson(response[t]) \/ NestedInCanvas(response[t]))) =>
          /\ result[t].updated_insights = user[t].key_insights
          /\ ~result[t].has_changes
          /\ store' = store
          /\ writes'[t][ph] = "none"
          /\ outcome'[t][ph] = "no_changes" ]_vars

C6_Witness ==
  \E t \in Turns :
    /\ pc[t] = "bg_persist"
    /\ NestedInCanvas(response[t])
    /\ ~result[t].has_changes
    /\ store[tok[t]] # NoUser
    /\ result[t].updated_insights = store[tok[t]].key_insights
    /\ store[tok[t]].key_insights # DefaultInsights

\* delta.added is empty or has no key of the implication table
NoImplicationKey(d) ==
  d.added = EmptyDict \/ \A k \in DOMAIN d.added : k \notin DOMAIN CanvasImplications

\* C7: generate_suggestion makes zero oracle calls and returns the null
\* suggestion whenever delta.added is empty or none of its keys is a key of
\* the implication table (e.g. only "constraints" or "pending_topics").
C7_GateSkipsOracle ==
  \A t \in Turns :
    (memory_delta[t] # None /\ NoImplicationKey(memory_delta[t])) =>
      /\ sugCalls[t] = 0
      /\ pc[t] \notin { "sug_oracle", "sug_persist" }
      /\ suggestion[t] \in { None, NullSuggestion }
      /\ shown[t] = NoneStr

C7_Witness ==
  \E t \in Turns :
    /\ pc[t] = "reply"
    /\ memory_delta[t] # None
    /\ DOMAIN memory_delta[t].added = { "constraints" }
    /\ suggestion[t] = NullSuggestion
    /\ sugCalls[t] = 0

\* suggestion is not null and confidence >= 0.6
Showable(s) == s.suggestion # NoneStr /\ s.confidence >= 6000

\* C8: should_show is true if and only if suggestion is not null and
\* confidence >= 0.6 (0.6 itself gives true, 0.5999 gives false): the node
\* takes its should_show branch exactly for such suggestions.
C8_ShouldShowIff ==
  \A t \in Turns :
    suggestion[t] # None =>
      /\ pc[t] = "sug_persist" => Showable(suggestion[t])
      /\ (pc[t] = "reply" /\ shown[t] # NoneStr) => Showable(suggestion[t])
      /\ (pc[t] = "reply" /\ shown[t] = NoneStr /\ writes[t].sug # "raised")
           => ~Showable(suggestion[t])

C8_Witness ==
  \E t1 \in Turns : \E t2 \in Turns :
    /\ pc[t1] = "reply" /\ pc[t2] = "reply"
    /\ suggestion[t1] # None /\ suggestion[t2] # None
    /\ suggestion[t1].confidence = 6000
    /\ shown[t1] # NoneStr
    /\ suggestion[t2].suggestion # NoneStr
    /\ suggestion[t2].confidence = 5999
    /\ shown[t2] = NoneStr

\* C9: if the store write of a changed snapshot does not succeed (raises or
\* reports failure), update_user_memory does not return an outcome with
\* has_changes = true.
C9_FailedWriteNotReported ==
  \A t \in Turns : \A ph \in Phases :
    writes[t][ph] \in { "failed", "raised" } => outcome[t][ph] # "has_changes"

\* C10: if the token does not resolve to a user, update_user_memory returns
\* None without invoking the extraction oracle and without writing, and
\* memory_extraction_node yields a null memory_delta.
C10_UserNotFound ==
  [][ \A t \in Turns : \A ph \in Phases :
        (Leaves(t, PcLoad(ph)) /\ store[tok[t]] = NoUser) =>
          /\ outcome'[t][ph] = "None"
          /\ extractCalls' = extractCalls
          /\ store' = store
          /\ writes' = writes
          /\ pc'[t] \notin { PcExtract(ph), PcPersist(ph) }
          /\ ph = "graph" => (memory_delta'[t] = None /\ pc'[t] = "reply") ]_vars

C10_Witness ==
  \E t \in Turns :
    /\ pc[t] = "reply"
    /\ store[tok[t]] = NoUser
    /\ outcome[t].graph = "None"
    /\ extractCalls[t] = 0
    /\ memory_delta[t] = None

\* update_user_memory has been called in phase ph of turn t and has passed
\* its load of the user
UpdateStarted(t, ph) ==
  outcome[t][ph] # "not_run" \/ pc[t] \in { PcExtract(ph), PcPersist(ph) }

\* C11: for each turn handled by the chat endpoint the memory-update
\* pipeline (update_user_memory) is started at most once for the user's
\* token, so fact extraction mutates BusinessInsights at most once per turn.
C11_UpdateOncePerTurn ==
  \A t \in Turns :
    /\ ~(UpdateStarted(t, "graph") /\ UpdateStarted(t, "bg"))
    /\ extractCalls[t] <= 1
    /\ ~(writes[t].graph = "ok" /\ writes[t].bg = "ok")

\* the reply of turn t has been handed to the client
Replied(t) == pc[t] \in { "bg_load", "bg_extract", "bg_persist", "done" }

\* C12: the reply of a turn is delivered without waiting for fact extraction
\* or suggestion generation of that turn: whenever the turn's memory pipeline
\* has loaded the user, called an oracle or finished, the reply has already
\* been delivered.
C12_ReplyNotDelayed ==
  \A t \in Turns :
    (UpdateStarted(t, "graph") \/ extractCalls[t] > 0 \/ sugCalls[t] > 0
       \/ pc[t] \in { "sug_load", "sug_oracle", "sug_persist" })
      => Replied(t)

\* where a stage's caller continues once update_user_memory has returned
AfterUpdate(ph) == IF ph = "graph" THEN "reply" ELSE "done"

\* C13: no failure inside the pipeline propagates: when loading the user,
\* the oracle call, parsing or persisting fails, update_user_memory returns
\* None (the extractor: the no-change result), memory_extraction_node
\* yields a null memory_delta and proactive_suggestion_node a null
\* suggestion, and the turn goes on to its reply.
C13_FailuresContained ==
  [][ \A t \in Turns :
        /\ \A ph \in Phases :
             /\ (Leaves(t, PcLoad(ph)) /\ pc'[t] # PcExtract(ph)) =>
                  /\ outcome'[t][ph] = "None"
                  /\ pc'[t] = AfterUpdate(ph)
                  /\ ph = "graph" => memory_delta'[t] = None
             /\ (Leaves(t, PcExtract(ph)) /\ response'[t].raised) =>
                  /\ result'[t] = no_change_result(user[t].key_insights)
                  /\ pc'[t] = PcPersist(ph)
             /\ (Leaves(t, PcPersist(ph)) /\ writes'[t][ph] = "raised") =>
                  /\ outcome'[t][ph] = "None"
                  /\ pc'[t] = AfterUpdate(ph)
                  /\ ph = "graph" => memory_delta'[t] = None
        /\ (Leaves(t, "sug_load") /\ pc'[t] # "sug_oracle") =>
             (shown'[t] = NoneStr /\ pc'[t] = "reply")
        /\ Leaves(t, "sug_oracle") => pc'[t] \in { "sug_persist", "reply" }
        /\ (Leaves(t, "sug_persist") /\ writes'[t].sug = "raised") =>
             (shown'[t] = NoneStr /\ pc'[t] = "reply") ]_vars

C13_Witness ==
  \E t \in Turns :
    /\ pc[t] = "reply"
    /\ writes[t].graph = "raised"
    /\ outcome[t].graph = "None"
    /\ memory_delta[t] = None
    /\ extractCalls[t] = 1

\* C14: within one turn the stages are sequential: the suggestion stage runs
\* only after the turn's update_user_memory has returned, and the
\* suggestion oracle is invoked only in a turn whose update reported
\* has_changes and issued its write before the suggestion stage read the user.
C14_StagesSequential ==
  \A t \in Turns :
    (pc[t] \in { "sug_load", "sug_oracle", "sug_persist" } \/ sugCalls[t] > 0) =>
      /\ outcome[t].graph = "has_changes"
      /\ writes[t].graph \in { "ok", "failed" }
      /\ pc[t] \notin { "conv", "mem_load", "mem_extract", "mem_persist" }

C14_Witness ==
  \E t \in Turns :
    /\ pc[t] = "sug_persist"
    /\ sugCalls[t] = 1
    /\ outcome[t].graph = "has_changes"
    /\ writes[t].graph = "ok"

\* number of occurrences of x in the list l
Count(x, l) == Cardinality({ i \in 1..Len(l) : l[i] = x })

\* C15: an accepted suggestion is appended to pending_topics as "[SYS] " +
\* text, and is not re-added when the identical tagged string is already
\* present: every write of the suggestion stage leaves the tagged string in
\* the stored pending_topics exactly once, as the last entry.
C15_SysTopicOnce ==
  [][ \A t \in Turns :
        /\ (Leaves(t, "sug_persist") /\ store' # store) =>
             LET topic == SysTopic(suggestion[t].suggestion)
                 pending == store'[tok[t]].key_insights.pending_topics
             IN /\ Count(topic, pending) = 1
                /\ pending[Len(pending)] = topic
        /\ (Leaves(t, "sug_oracle") /\ should_show(suggestion'[t])
              /\ SysTopic(suggestion'[t].suggestion)
                   \in Range(user[t].key_insights.pending_topics)) =>
             (pc'[t] = "reply" /\ store' = store /\ writes' = writes) ]_vars

C15_Witness ==
  \E t \in Turns :
    /\ pc[t] = "reply"
    /\ shown[t] # NoneStr
    /\ writes[t].sug = "none"
    /\ store[tok[t]] # NoUser
    /\ Count(SysTopic(shown[t]), store[tok[t]].key_insights.pending_topics) = 1

\* the oracle's text is not JSON: prose, or a fenced block after prose
SuggestionNotJson(r) ==
  ~r.raised /\ \E i \in 1..Len(r.content) : r.content[i].tk = "prose"

\* the JSON value the text holds, once the fences are stripped
SuggestionJson(r) == CHOOSE j \in { r.content[i].val : i \in { n \in 1..Len(r.content) :
                                                         r.content[n].tk = "json" } } : TRUE

\* the text is JSON, but not an object
SuggestionNotObject(r) ==
  ~r.raised /\ ~SuggestionNotJson(r) /\ SuggestionJson(r).ty # "object"

\* the text is a JSON object whose confidence is null or not a number
SuggestionBadConfidence(r) ==
  /\ ~r.raised /\ ~SuggestionNotJson(r)
  /\ SuggestionJson(r).ty = "object"
  /\ "confidence" \in SuggestionJson(r).keys
  /\ SuggestionJson(r).confidence.k \in { "null", "word" }

\* C16: on any failure to parse or validate the suggestion oracle's output
\* (non-JSON text, JSON that is not an object, non-numeric or null
\* confidence, a failed call) generate_suggestion returns the null
\* suggestion, whose should_show is false.
C16_SuggestionParseFailure ==
  (gOut # None
     /\ (gReply.raised \/ SuggestionNotJson(gReply) \/ SuggestionNotObject(gReply)
           \/ SuggestionBadConfidence(gReply)))
    => (gOut = NullSuggestion /\ ~should_show(gOut))

C16_Witness ==
  /\ gOut = NullSuggestion
  /\ has_cross_canvas_potential(gDelta)
  /\ SuggestionBadConfidence(gReply)
  /\ SuggestionJson(gReply).confidence.k = "null"
  /\ SuggestionJson(gReply).suggestion # NoneStr

\* C17: every ProactiveSuggestion returned by generate_suggestion has a
\* confidence within [0, 1].
C17_ConfidenceInUnitInterval ==
  gOut # None => (0 <= gOut.confidence /\ gOut.confidence <= 10000)

\* C18: the persisted canvas_state always has exactly the 9 fixed category
\* keys, each mapped to a list of strings.
C18_NineCanvasKeys ==
  \A k \in Tokens :
    store[k] # NoUser => DOMAIN store[k].key_insights.canvas_state = CanvasBlockSet

\* a step in which turn t issues a store write
PipelineWrite(t) ==
  Leaves(t, "mem_persist") \/ Leaves(t, "bg_persist") \/ Leaves(t, "sug_persist")

\* C19: the memory pipeline never changes a user's static profile fields:
\* after a write of update_user_memory or of the suggestion stage the stored
\* profile equals the profile stored immediately before the write.
C19_ProfileFieldsKept ==
  [][ \A t \in Turns :
        (PipelineWrite(t) /\ store[tok[t]] # NoUser) =>
          /\ store'[tok[t]] # NoUser
          /\ store'[tok[t]].sector = store[tok[t]].sector ]_vars

\* C20: after reset_memory succeeds the user exists with the default-empty
\* BusinessInsights, and a pipeline that held a loaded user when the reset
\* happened does not write facts back into the emptied memory.
C20_ResetStaysEmpty ==
  [][ /\ \A k \in Tokens :
           (store[k] # NoUser /\ store'[k] # NoUser /\ store'[k] # store[k]
              /\ pc' = pc /\ store'[k].sector = store[k].sector) =>
             store'[k].key_insights = DefaultInsights
      /\ \A t \in Turns :
           (PipelineWrite(t) /\ resetSeen[t] /\ store[tok[t]] # NoUser
              /\ store[tok[t]].key_insights = DefaultInsights) =>
             store'[tok[t]].key_insights = DefaultInsights ]_vars

\* turn t takes a step
Steps(t) == pc'[t] # pc[t]

\* the copy turn t holds is the stored document of its own token, up to
\* the pending topic the suggestion stage has appended to it
HoldsOwnDocument(t) ==
  LET doc == store[tok[t]] IN
    \/ doc = NoUser
    \/ user[t] = doc
    \/ /\ pc[t] = "sug_persist"
       /\ user[t] = [ doc EXCEPT !.key_insights.pending_topics =
                        Append(@, SysTopic(suggestion[t].suggestion)) ]

\* C21: pipelines for different tokens share no mutable state: a step of a
\* turn for token A leaves every other token's document as it is and loads
\* only A's document, and each write is computed from the current document
\* of A alone, so concurrent pipelines for different tokens leave the store
\* as any serial order of them does.
C21_TokensIsolated ==
  [][ \A t \in Turns :
        Steps(t) =>
          /\ \A k \in Tokens \ { tok[t] } : store'[k] = store[k]
          /\ user'[t] # None =>
               (user'[t] = store[tok[t]] \/ user[t] # None)
          /\ (\A t2 \in Turns \ {t} : tok[t2] # tok[t]) =>
               (user[t] # None => HoldsOwnDocument(t)) ]_vars

C21_Witness ==
  /\ store["u1"] # NoUser /\ store["u2"] # NoUser
  /\ store["u1"].key_insights # DefaultInsights
  /\ store["u2"].key_insights # DefaultInsights
  /\ store["u1"].key_insights # store["u2"].key_insights
  /\ writes[1].graph = "ok"
  /\ \E t \in Turns : tok[t] = "u2" /\ writes[t].graph = "ok"

\* b holds the entries of a in some order
IsPermutation(a, b) ==
  Len(a) = Len(b) /\ \A x \in Range(a) \cup Range(b) : Count(x, a) = Count(x, b)

\* new differs from old at most by the order of the entries of its lists
IsReorder(old, new) ==
  /\ DOMAIN new.canvas_state = DOMAIN old.canvas_state
  /\ \A b \in DOMAIN old.canvas_state :
       IsPermutation(old.canvas_state[b], new.canvas_state[b])
  /\ IsPermutation(old.constraints, new.constraints)
  /\ IsPermutation(old.preferences, new.preferences)
  /\ IsPermutation(old.pending_topics, new.pending_topics)

\* C22: compute_delta is order-independent: if new differs from old only by
\* reordering the entries of its lists, added and removed are both empty
\* and has_changes is false.
C22_OrderIndependent ==
  (dOut # None /\ IsReorder(dOld, dNew)) =>
    /\ dOut.added = EmptyDict
    /\ dOut.removed = EmptyDict
    /\ ~HasChanges(dOut)

C22_Witness ==
  /\ dOut # None
  /\ IsReorder(dOld, dNew)
  /\ \E b \in DOMAIN dOld.canvas_state : dOld.canvas_state[b] # dNew.canvas_state[b]
  /\ dOld.constraints # dNew.constraints
  /\ dOut.added = EmptyDict

\* C23: for any BusinessInsights I, compute_delta(I, I) has empty added and
\* removed maps and carries nothing else that marks a change, so an
\* extraction that returns I unchanged is a no-op.
C23_DeltaOfSelfEmpty ==
  (dOut # None /\ dOld = dNew) =>
    /\ dOut = [ added |-> EmptyDict, removed |-> EmptyDict, modified |-> EmptyDict ]
    /\ ~HasChanges(dOut)

C23_Witness ==
  /\ dOut # None
  /\ dOld = dNew
  /\ dOld.constraints # << >>
  /\ \E b \in DOMAIN dOld.canvas_state : Len(dOld.canvas_state[b]) = 2
  /\ dOut.added = EmptyDict /\ dOut.removed = EmptyDict

\* C24: an unavailable oracle is not retried: one update_user_memory call
\* invokes the fact-extraction oracle at most once and one
\* generate_suggestion call the suggestion oracle at most once, and an
\* oracle error yields the no-change outcome immediately.
C24_NoRetry ==
  [][ \A t \in Turns :
        /\ \A ph \in Phases :
             /\ Leaves(t, PcExtract(ph)) =>
                  /\ extractCalls'[t] = extractCalls[t] + 1
                  /\ pc'[t] = PcPersist(ph)
                  /\ response'[t].raised =>
                       result'[t] = no_change_result(user[t].key_insights)
             /\ (Leaves(t, PcPersist(ph)) /\ response[t].raised) =>
                  /\ outcome'[t][ph] = "no_changes"
                  /\ store' = store
                  /\ pc'[t] = AfterUpdate(ph)
        /\ (\A ph \in Phases : ~Leaves(t, PcExtract(ph))) =>
             extractCalls'[t] = extractCalls[t]
        /\ Leaves(t, "sug_oracle") =>
             (sugCalls'[t] = sugCalls[t] + 1 /\ sugCalls'[t] = 1 /\ pc'[t] # "sug_oracle")
        /\ ~Leaves(t, "sug_oracle") => sugCalls'[t] = sugCalls[t] ]_vars

C24_Witness ==
  \E t \in Turns :
    /\ pc[t] = "bg_persist"
    /\ response[t].raised
    /\ extractCalls[t] = 2
    /\ ~result[t].has_changes
    /\ sugCalls[t] = 1

\* a memory pipeline run of turn t has started and not yet returned
PipelineBusy(t) ==
  pc[t] \in { "mem_load", "mem_extract", "mem_persist", "sug_load", "sug_oracle",
              "sug_persist", "bg_load", "bg_extract", "bg_persist" }

\* C25: every started memory pipeline run eventually reaches a terminal
\* outcome, including when an oracle call never answers.
C25_PipelineTerminates ==
  \A t \in Turns : PipelineBusy(t) ~> ~PipelineBusy(t)

\* C26: the suggestion stage writes to the store only when
\* generate_suggestion returned should_show = true and the tagged text is not
\* yet in pending_topics; with a null memory_delta it makes no oracle call
\* and no store access; a null or below-threshold suggestion is suppressed:
\* nothing is written, the store is unchanged and no second oracle call is
\* made.
C26_SuggestionWritesGated ==
  [][ \A t \in Turns :
        /\ writes'[t].sug # writes[t].sug =>
             /\ Leaves(t, "sug_persist")
             /\ should_show(suggestion[t])
             /\ Count(SysTopic(suggestion[t].suggestion),
                      user[t].key_insights.pending_topics) = 1
        /\ (outcome'[t].graph # outcome[t].graph /\ memory_delta'[t] = None) =>
             pc'[t] = "reply"
        /\ (Leaves(t, "reply") /\ memory_delta[t] = None) =>
             /\ sugCalls[t] = 0
             /\ writes[t].sug = "none"
             /\ suggestion[t] = None
             /\ shown[t] = NoneStr
        /\ (Leaves(t, "sug_oracle") /\ ~should_show(suggestion'[t])) =>
             /\ store' = store
             /\ writes' = writes
             /\ shown'[t] = NoneStr
             /\ sugCalls'[t] = 1
             /\ pc'[t] = "reply" ]_vars

C26_Witness ==
  \E t \in Turns :
    /\ pc[t] = "bg_load"
    /\ shown[t] = NoneStr
    /\ sugCalls[t] = 1
    /\ writes[t].sug = "none"
    /\ writes[t].graph = "ok"
    /\ store[tok[t]] # NoUser
    /\ store[tok[t]].key_insights.pending_topics = << >>

\* an answer that is an error whose message holds 429
IsRateLimit(answer) == answer.raised /\ Contains(answer.error, << "4", "2", "9" >>)

\* C27: one run calls the judge model at most 3 times; every call but the
\* last failed with a 429 and was followed by one sleep; a run whose last call
\* failed (any other error, or the third 429) returns accuracy_error with a
\* null score
C27_JudgeRetries ==
  jOut # None =>
    /\ jOut.calls \in 1..3
    /\ jOut.sleeps = jOut.calls - 1
    /\ \A i \in 1..(jOut.calls - 1) : IsRateLimit(jPlan[i])
    /\ jPlan[jOut.calls].raised =>
         jOut.key = "accuracy_error" /\ jOut.score = None

\* a run that met three 429 errors in a row
C27_Witness ==
  /\ jOut # None
  /\ jOut.calls = 3
  /\ IsRateLimit(jPlan[3])
  /\ jOut.key = "accuracy_error"

\* comparisons of a quotient with positive denominator
IsOne(q) == q.num = q.den
BelowOne(q) == q.num < q.den
InUnitInterval(q) == 0 <= q.num /\ q.num <= q.den

\* the flattened actual facts of the overlap run
ActualFacts == flatten(mActual)

\* expected fact i and actual fact j have the same normalised content, or one
\* content lies inside the other
Matching(i, j) ==
  LET e == lower(mExpected[i].item)
      a == lower(ActualFacts[j].item)
  IN  Contains(a, e) \/ Contains(e, a)

\* the two lists pair off: equally long, and some pairing matches every fact
OneToOne ==
  /\ Len(mExpected) = Len(ActualFacts)
  /\ \E f \in [ 1..Len(mExpected) -> 1..Len(ActualFacts) ] :
       /\ \A i, k \in 1..Len(mExpected) : f[i] = f[k] => i = k
       /\ \A i \in 1..Len(mExpected) : Matching(i, f[i])

SomeMissed ==
  \E i \in 1..Len(mExpected) : \A j \in 1..Len(ActualFacts) : ~Matching(i, j)

SomeHallucinated ==
  \E j \in 1..Len(ActualFacts) : \A i \in 1..Len(mExpected) : ~Matching(i, j)

\* C28, first part: facts that pair off one-to-one score 1.0 three times
C28_PerfectMatch ==
  (mActual # None /\ mOut # None /\ OneToOne) =>
    IsOne(mOut.precision) /\ IsOne(mOut.recall) /\ IsOne(mOut.f1)

\* C28, second part: a missed expected fact gives fn >= 1 and recall < 1
C28_MissedFact ==
  (mActual # None /\ mOut # None /\ SomeMissed) =>
    mOut.fn >= 1 /\ BelowOne(mOut.recall)

\* C28: compute_fact_overlap accounts facts consistently: a one-to-one match
\* scores 1.0 three times, a missed expected fact gives fn >= 1 and recall < 1,
\* and an actual fact that matches no expected fact gives fp >= 1 and
\* precision < 1
C28_OverlapConsistent ==
  (mActual # None /\ mOut # None) =>
    /\ OneToOne => IsOne(mOut.precision) /\ IsOne(mOut.recall) /\ IsOne(mOut.f1)
    /\ SomeMissed => mOut.fn >= 1 /\ BelowOne(mOut.recall)
    /\ SomeHallucinated => mOut.fp >= 1 /\ BelowOne(mOut.precision)

\* a score record whose counts and quotients are well-formed
WellFormed(m) ==
  /\ m.tp >= 0 /\ m.fp >= 0 /\ m.fn >= 0
  /\ InUnitInterval(m.precision)
  /\ InUnitInterval(m.recall)
  /\ InUnitInterval(m.f1)

\* C29, the _compute_metrics half: its scores are well-formed for every answer
C29_JudgeMetricsWellFormed ==
  (mJudge # None /\ mOut # None) => WellFormed(mOut)

\* C29: the scores of compute_fact_overlap and of _compute_metrics are
\* well-formed: tp, fp, fn are non-negative and precision, recall, f1 lie in
\* [0, 1]
C29_ScoresWellFormed ==
  mOut # None => WellFormed(mOut)

\* the model request of the turn carries a file
FileAttached == files # None /\ (files.pdf_attached \/ files.image_attached)

\* C30, the other direction: a validated file that decodes is attached
C30_ValidFilesAttached ==
  (files # None /\ files.pc = "done" /\ files.validation = "VALID") => FileAttached
    \/ (~attached(files.pdf_base64) /\ ~attached(files.image_base64))

\* C30: a file whose validation in file_processing_node failed is never
\* attached to the model request: a request carries file content only after
\* validation returned VALID
C30_AttachedOnlyIfValid ==
  FileAttached => files.validation = "VALID"
====
